---- MODULE Spec2Model ----
(***************************************************************************)
(* State-machine model of the VibeVoice REST server (src/server.py).       *)
(*                                                                         *)
(* One generation request (/generate or /generate/wav) is in flight at a   *)
(* time: both handlers are coroutines that never await, so they occupy the *)
(* event loop from entry to return.  The worker thread started by the      *)
(* handler runs concurrently with it.  /generate/stream and /health are    *)
(* served in a second slot whenever the event loop is free.                *)
(* A thread that outlives its handler keeps running beside the next        *)
(* request.  The helper functions (16-bit conversion, script formatting,   *)
(* encoding) are also exercised on their own, on enumerated arguments, by  *)
(* the specification FnSpec.                                               *)
(*                                                                         *)
(* Audio samples are integers in units of 1/32767: the sample value 1.0 is *)
(* 32767, so `data * 32767` of the source is the integer itself.           *)
(* Chunks are one-dimensional sample sequences; only authenticated         *)
(* requests are modelled.                                                  *)
(***************************************************************************)
EXTENDS Integers, Sequences, FiniteSets, TLC

\* ------------------------------------------------------------------ bounds
MaxChunks == 2
MaxRequests == 2
MaxLatePuts == 1
MaxBufferLen == 2
MaxScriptLen == 3
MaxIds == 3

\* -------------------------------------------------------- program constants
Int16Max == 32767
MinNumSpeakers == 1
MaxNumSpeakers == 4
ValidatorDefaultNumSpeakers == 2
SAMPLE_RATE == 24000
MicrosPerMilli == 1000
MicrosPerSecond == 1000000

default_speakers == <<"en-Alice_woman", "en-Carter_man", "en-Frank_man", "en-Maya_woman">>

\* ------------------------------------------------------------------ inputs
\* Contents of the voices directory found by setup_voice_presets, as the
\* alphabetically sorted key list of available_voices.
VoiceDirs == { <<>>, <<"en-Alice_woman", "en-Carter_man", "zz-Broken">> }

\* Voice files that sf.read cannot decode: read_audio returns an empty array.
UnreadableVoices == {"zz-Broken"}

\* A script is the sequence of its lines; a line is blank (whitespace only),
\* labelled (starts with 'Speaker ' and contains ':') or plain.
Scripts == { <<>>, <<"blank">>, <<"plain", "plain">>, <<"labelled", "blank", "plain">> }

NumSpeakerInputs == {1, 2, 5}

SpeakerLists ==
  { <<>>,
    <<"en-Alice_woman">>,
    <<"en-Alice_woman", "en-Carter_man">>,
    <<"en-Alice_woman", "ghost">>,
    <<"en-Carter_man", "zz-Broken">>,
    <<"en-Alice_woman", "en-Carter_man", "zz-Broken">> }

Endpoints == {"generate", "wav"}

\* Bodies sent to /generate/stream, whose handler reads nothing but the
\* validated fields: [num_speakers, speakers].
StreamBodies ==
  { [num_speakers |-> 2, speakers |-> <<>>],
    [num_speakers |-> 2, speakers |-> <<"en-Alice_woman", "en-Carter_man", "zz-Broken">>] }

\* Chunks the generation routine may hand to the streamer.
ChunkSet == { <<>>, <<16384>>, <<65534, -32767>> }

\* Chunks a thread may put after its request has ended.
OrphanChunks == { <<16384>> }

\* ----------------------------------------------------------------- helpers
Abs(x) == IF x < 0 THEN -x ELSE x

\* C-style integer division (numpy astype(int16) truncates toward zero).
Trunc(a, b) == IF a >= 0 THEN a \div b ELSE -((-a) \div b)

Range(s) == { s[i] : i \in 1..Len(s) }

SeqMax(s) == CHOOSE m \in Range(s) : \A x \in Range(s) : x <= m

RECURSIVE Concatenate(_)
Concatenate(chunks) ==
  IF chunks = <<>> THEN <<>> ELSE Head(chunks) \o Concatenate(Tail(chunks))

Prefix(s, n) == SubSeq(s, 1, IF n < Len(s) THEN n ELSE Len(s))


\* ------------------------------------------------------------------- state
VARIABLES
  is_initialized,       \* vibe_server.is_initialized
  available_voices,     \* vibe_server.available_voices, as its sorted key list
  nreq,                 \* generation requests received so far
  tempFiles,            \* temporary .wav files present on disk
  request,              \* body and endpoint of the generation request in the slot
  pc,                   \* position of its handler
  selected_speakers,    \* handler local
  voice_samples,        \* handler local: speakers whose samples were loaded
  formatted_script_lines, \* handler local
  audio_streamer,       \* the request's AudioStreamer: [state, queue]
  generation_thread,    \* the request's worker thread
  pushed,               \* chunks the generation routine has put, in order
  all_audio_chunks,     \* handler local
  audio_data,           \* handler local
  response,             \* what the client of the generation request received
  light,                \* the latest /generate/stream exchange
  orphan,               \* the latest worker abandoned by its handler while running
  probe                 \* argument and result of a function applied on its own

vars == << is_initialized, available_voices, nreq, tempFiles, request, pc,
           selected_speakers, voice_samples, formatted_script_lines,
           audio_streamer, generation_thread, pushed, all_audio_chunks,
           audio_data, response, light, orphan, probe >>

serverVars == << is_initialized, available_voices >>
localVars == << selected_speakers, voice_samples, formatted_script_lines,
                all_audio_chunks, audio_data >>
workerVars == << audio_streamer, generation_thread, pushed >>

NoRequest == [endpoint |-> "none", script |-> <<>>, num_speakers |-> 0, speakers |-> <<>>]
NoDuration == [num |-> 0, den |-> 1]
NoResponse == [status |-> 0, detail |-> "", audio |-> <<>>, samples |-> 0, sample_rate |-> 0,
               duration |-> NoDuration]
NoStreamer == [state |-> "none", queue |-> <<>>]
NoOrphan == [thread |-> "none", streamer |-> NoStreamer]
NoProbe == [fn |-> "none", step |-> 0, den |-> 1, data |-> <<>>, buffer |-> <<>>,
            script |-> <<>>, n |-> 0, raised |-> FALSE, out |-> <<>>, out2 |-> <<>>,
            save |-> "none", saved_filepath |-> "", resp |-> NoResponse]
NoLight == [num_speakers |-> 0, speakers |-> <<>>, status |-> 0, frames |-> <<>>,
            pos |-> "none"]

Error(status, detail) ==
  [status |-> status, detail |-> detail, audio |-> <<>>, samples |-> 0, sample_rate |-> 0,
   duration |-> NoDuration]

\* Handler positions at which the coroutine has returned or raised.
Exited == {"done", "failed"}

\* The event loop is free when no generation handler is between entry and exit.
LoopFree == pc \in {"none"} \cup Exited

\* VibeVoiceServer.__init__
ServerInit ==
  /\ is_initialized = FALSE
  /\ available_voices = <<>>
  /\ nreq = 0
  /\ tempFiles = 0
  /\ request = NoRequest
  /\ pc = "none"
  /\ selected_speakers = <<>>
  /\ voice_samples = <<>>
  /\ formatted_script_lines = <<>>
  /\ audio_streamer = NoStreamer
  /\ generation_thread = "none"
  /\ pushed = <<>>
  /\ all_audio_chunks = <<>>
  /\ audio_data = <<>>
  /\ response = NoResponse
  /\ light = NoLight
  /\ orphan = NoOrphan

Init ==
  /\ ServerInit
  /\ probe = NoProbe

\* VibeVoiceServer.initialize with setup_voice_presets: the registry is filled and
\* the flag set with no suspension point in between.
Initialize ==
  /\ LoopFree
  /\ ~is_initialized
  /\ \E dir \in VoiceDirs : available_voices' = dir
  /\ is_initialized' = TRUE
  /\ UNCHANGED << probe, orphan, nreq, tempFiles, request, pc, localVars, workerVars, response, light >>

\* VibeVoiceServer.read_audio: the decoded waveform is empty when the file cannot
\* be read; only emptiness is observed by the handlers.
read_audio_empty(name) == name \in UnreadableVoices


\* ------------------------------------------------- request body validation
\* Field(ge=1, le=4) of GenerationRequest.num_speakers
num_speakers_ok(n) == n >= MinNumSpeakers /\ n <= MaxNumSpeakers

\* Variant of validate_speakers that accepts every list.
validate_speakers_none(v, n) == TRUE

\* GenerationRequest.validate_speakers: TRUE when the validator returns v, FALSE
\* when it raises.  info.data holds num_speakers only if that field validated.
validate_speakers(v, n) ==
  LET num_speakers == IF num_speakers_ok(n) THEN n ELSE ValidatorDefaultNumSpeakers
  IN ~(Len(v) > 0 /\ Len(v) # num_speakers)

\* The body is accepted by the framework when every field validates.
body_ok(body) ==
  /\ num_speakers_ok(body.num_speakers)
  /\ validate_speakers(body.speakers, body.num_speakers)

\* request.script.strip() is empty
script_is_empty(script) == \A i \in 1..Len(script) : script[i] = "blank"

\* ------------------------------------------------------- speaker selection
InVoices(name) == name \in Range(available_voices)

\* "Fill remaining with available speakers" loop of generate_podcast
RECURSIVE fill_remaining(_, _, _)
fill_remaining(avail, selected, remaining) ==
  IF avail = <<>> \/ remaining <= 0 THEN selected
  ELSE IF Head(avail) \notin Range(selected)
       THEN fill_remaining(Tail(avail), Append(selected, Head(avail)), remaining - 1)
       ELSE fill_remaining(Tail(avail), selected, remaining)

\* Speaker selection of generate_podcast
select_speakers_generate(body) ==
  IF body.speakers # <<>> THEN body.speakers
  ELSE LET defaults == SelectSeq(Prefix(default_speakers, body.num_speakers), InVoices)
       IN fill_remaining(available_voices, defaults, body.num_speakers - Len(defaults))

\* Speaker selection of generate_podcast_wav; <<"!">> stands for the raise of
\* "Requested N speakers but only M available".
TooFewVoices == <<"!">>
select_speakers_wav(body) ==
  IF body.speakers # <<>> THEN Prefix(body.speakers, body.num_speakers)
  ELSE IF Len(available_voices) < body.num_speakers THEN TooFewVoices
       ELSE Prefix(available_voices, body.num_speakers)

\* Variant of resolve_error that lets every speaker list through.
resolve_error_none(selected) == NoResponse

\* Validation of the chosen speakers and loading of their samples: the error
\* raised, or NoResponse when every sample was loaded.
resolve_error(selected) ==
  IF \E i \in 1..Len(selected) : ~InVoices(selected[i])
    THEN Error(400, "Speaker not found")
  ELSE IF \E i \in 1..Len(selected) : read_audio_empty(selected[i])
    THEN Error(500, "Failed to load audio")
  ELSE NoResponse

\* -------------------------------------------------------- script formatting
\* A turn is [label, line]: label 0 keeps the line verbatim, label k > 0 is the
\* prefix "Speaker k: "; line is the index of the source line.
RECURSIVE format_lines(_, _, _, _)
RECURSIVE format_lines_by_position(_, _, _, _)

\* Variant of format_lines that rotates on the position of the line in the
\* script instead of the number of turns emitted so far.
format_lines_by_position(script, i, n, acc) ==
  IF i > Len(script) THEN acc
  ELSE IF script[i] = "blank" THEN format_lines_by_position(script, i + 1, n, acc)
  ELSE IF script[i] = "labelled"
       THEN format_lines_by_position(script, i + 1, n,
                                     Append(acc, [label |-> 0, line |-> i]))
       ELSE format_lines_by_position(script, i + 1, n,
                                     Append(acc, [label |-> ((i - 1) % n) + 1, line |-> i]))

\* The formatting loop from line i on, acc being formatted_script_lines so far.
format_lines(script, i, n, acc) ==
  IF i > Len(script) THEN acc
  ELSE IF script[i] = "blank" THEN format_lines(script, i + 1, n, acc)
  ELSE IF script[i] = "labelled"
       THEN format_lines(script, i + 1, n, Append(acc, [label |-> 0, line |-> i]))
       ELSE format_lines(script, i + 1, n,
                         Append(acc, [label |-> (Len(acc) % n) + 1, line |-> i]))

format_script(script, n) == format_lines(script, 1, n, <<>>)


\* ---------------------------------------------------------------- encoding
\* Variant of convert_to_16_bit_wav that divides by the peak whatever it is.
convert_to_16_bit_wav_always(data, den) ==
  LET peak == SeqMax([i \in 1..Len(data) |-> Abs(data[i])])
  IN [i \in 1..Len(data) |-> IF peak = 0 THEN 0 ELSE Trunc(data[i] * Int16Max, peak)]

\* convert_to_16_bit_wav on a non-empty buffer whose float values are x / den:
\* peak > 1.0 rescales by the peak, then * 32767 and astype(int16).  Exact
\* arithmetic stands for the float32 arithmetic of numpy.
convert_to_16_bit_wav(data, den) ==
  LET peak == SeqMax([i \in 1..Len(data) |-> Abs(data[i])])
  IN IF peak > den
       THEN [i \in 1..Len(data) |-> Trunc(data[i] * Int16Max, peak)]
       ELSE [i \in 1..Len(data) |-> Trunc(data[i] * Int16Max, den)]

\* np.max of an empty array raises ValueError inside convert_to_16_bit_wav.
convert_raises(data) == data = <<>>

\* audio_to_base64: the 16-bit conversion, the WAV container (its header is
\* determined by the sample rate and the number of frames) and base64, which is
\* one-to-one on the bytes.
audio_to_base64(data, sample_rate) ==
  LET audio_16bit == convert_to_16_bit_wav(data, 1)
  IN << sample_rate, Len(audio_16bit) >> \o audio_16bit

\* Variant of array_after_encoding in which the conversion writes its result
\* back into the caller's array.
array_after_encoding_in_place(data) == convert_to_16_bit_wav(data, 1)

\* The caller's array after audio_to_base64: np.array(data) copies, and the
\* division and the scaling bind new arrays to the local name.
array_after_encoding(data) == data

\* Variant of collect_chunk that inserts the converted chunk at the front.
collect_chunk_front(chunks, audio_chunk) ==
  <<convert_to_16_bit_wav(audio_chunk, Int16Max)>> \o chunks

\* Loop body of the drain loop: convert the chunk, append it.
collect_chunk(chunks, audio_chunk) ==
  Append(chunks, convert_to_16_bit_wav(audio_chunk, Int16Max))

\* Variant of chunks_present that lets an empty list through.
chunks_present_always(chunks) == TRUE

\* "if all_audio_chunks:" before the concatenation
chunks_present(chunks) == chunks # <<>>

\* Variant of combine_chunks that keeps only the chunk collected last.
combine_chunks_last(chunks) == chunks[Len(chunks)]

\* np.concatenate(all_audio_chunks).astype(np.float32): int16 values as floats
combine_chunks(chunks) == Concatenate(chunks)

\* ---------------------------------------------------- AudioStreamer (channel)
\* put: a chunk is accepted only while the channel is open.
streamer_put(st, chunk) ==
  IF st.state = "Open" THEN [st EXCEPT !.queue = Append(@, chunk)] ELSE st

\* end: close the channel; idempotent.
streamer_end(st) == [st EXCEPT !.state = IF @ = "Open" THEN "Closed" ELSE @]

\* What a pull with timeout=None finds: a chunk, end of stream, or it blocks.
pull_result(st) ==
  IF st.queue # <<>> THEN "chunk"
  ELSE IF st.state = "Closed" THEN "end" ELSE "block"

\* ------------------------------------------------------ request lifecycle
Bodies ==
  { [script |-> sc, num_speakers |-> n, speakers |-> sp] :
      sc \in Scripts, n \in NumSpeakerInputs, sp \in SpeakerLists }

Fail(resp) ==
  /\ pc' = "failed"
  /\ response' = resp

\* A handler call that ends while its thread is still running leaves the thread
\* and the streamer it writes to behind: both are locals of that call and live
\* on with the thread.  The latest such pair is kept; the chunks still queued at
\* that moment are never read by anyone and are not kept.
abandoned(prev, thread, streamer) ==
  IF thread = "running"
    THEN [thread |-> thread, streamer |-> [streamer EXCEPT !.queue = <<>>]]
    ELSE prev

\* Variant of closure_streamer in which the routine writes to the streamer
\* created last, as if audio_streamer were shared by all handler calls.
closure_streamer_latest(own, latest) == latest

\* audio_streamer in the thread's lambda is a free variable bound to the local
\* of the handler call that built the thread: the routine writes to the
\* streamer of its own request, whatever streamers are created later.
closure_streamer(own, latest) == own

\* A generation request reaches the server: the framework validates the body
\* against GenerationRequest and, if valid, enters the handler.
Arrive ==
  /\ LoopFree
  /\ nreq < MaxRequests
  /\ \E ep \in Endpoints, body \in Bodies :
       /\ request' = [endpoint |-> ep, script |-> body.script,
                      num_speakers |-> body.num_speakers, speakers |-> body.speakers]
       /\ IF body_ok(body)
            THEN pc' = "validating" /\ response' = NoResponse
            ELSE Fail(Error(422, "Validation error"))
  /\ nreq' = nreq + 1
  /\ selected_speakers' = <<>>
  /\ voice_samples' = <<>>
  /\ formatted_script_lines' = <<>>
  /\ all_audio_chunks' = <<>>
  /\ audio_data' = <<>>
  /\ audio_streamer' = NoStreamer
  /\ generation_thread' = "none"
  /\ pushed' = <<>>
  /\ orphan' = abandoned(orphan, generation_thread, audio_streamer)
  /\ UNCHANGED << probe, serverVars, tempFiles, light >>

\* generate_podcast up to "Loaded voice samples"
ResolveGenerate ==
  /\ pc = "validating"
  /\ request.endpoint = "generate"
  /\ LET selected == select_speakers_generate(request)
     IN IF ~is_initialized
          THEN Fail(Error(503, "Server is still initializing"))
               /\ UNCHANGED << selected_speakers, voice_samples >>
        ELSE IF script_is_empty(request.script)
          THEN Fail(Error(400, "Script cannot be empty"))
               /\ UNCHANGED << selected_speakers, voice_samples >>
        ELSE IF resolve_error(selected) # NoResponse
          THEN Fail(resolve_error(selected))
               /\ selected_speakers' = selected
               /\ UNCHANGED voice_samples
        ELSE /\ pc' = "resolved"
             /\ selected_speakers' = selected
             /\ voice_samples' = selected
             /\ UNCHANGED response
  /\ UNCHANGED << probe, orphan, serverVars, nreq, tempFiles, request, formatted_script_lines,
                  all_audio_chunks, audio_data, workerVars, light >>

\* generate_podcast_wav up to "Loaded voice samples"
ResolveWav ==
  /\ pc = "validating"
  /\ request.endpoint = "wav"
  /\ LET selected == select_speakers_wav(request)
     IN IF script_is_empty(request.script)
          THEN Fail(Error(400, "Script cannot be empty"))
               /\ UNCHANGED << selected_speakers, voice_samples >>
        ELSE IF selected = TooFewVoices
          THEN Fail(Error(400, "Requested more speakers than available"))
               /\ UNCHANGED << selected_speakers, voice_samples >>
        ELSE IF resolve_error(selected) # NoResponse
          THEN Fail(resolve_error(selected))
               /\ selected_speakers' = selected
               /\ UNCHANGED voice_samples
        ELSE /\ pc' = "resolved"
             /\ selected_speakers' = selected
             /\ voice_samples' = selected
             /\ UNCHANGED response
  /\ UNCHANGED << probe, orphan, serverVars, nreq, tempFiles, request, formatted_script_lines,
                  all_audio_chunks, audio_data, workerVars, light >>

\* Variant of StartGeneration that starts the worker before the speakers are
\* resolved.
StartGenerationUnresolved ==
  /\ pc = "validating"
  /\ formatted_script_lines' = format_script(request.script, request.num_speakers)
  /\ audio_streamer' = [state |-> "Open", queue |-> <<>>]
  /\ generation_thread' = "running"
  /\ pc' = "sleep"
  /\ UNCHANGED << probe, orphan, serverVars, nreq, tempFiles, request, selected_speakers,
                  voice_samples, all_audio_chunks, audio_data, pushed, response,
                  light >>

\* Script formatting, processor call, AudioStreamer creation and thread start.
\* The processor is an external collaborator that may raise.
StartGeneration ==
  /\ pc = "resolved"
  /\ formatted_script_lines' = format_script(request.script, request.num_speakers)
  /\ \E processor_ok \in BOOLEAN :
       IF processor_ok
         THEN /\ audio_streamer' = [state |-> "Open", queue |-> <<>>]
              /\ generation_thread' = "running"
              /\ pc' = "sleep"
              /\ UNCHANGED response
         ELSE /\ Fail(Error(500, "Generation failed"))
              /\ UNCHANGED << audio_streamer, generation_thread >>
  /\ UNCHANGED << probe, orphan, serverVars, nreq, tempFiles, request, selected_speakers,
                  voice_samples, all_audio_chunks, audio_data, pushed, light >>

\* Variant of GraceSleep that, finding the thread dead after the wait, builds a
\* new streamer and starts a new thread.
GraceSleepRetry ==
  /\ pc = "sleep"
  /\ IF generation_thread = "raised"
       THEN /\ audio_streamer' = [state |-> "Open", queue |-> <<>>]
            /\ generation_thread' = "running"
            /\ UNCHANGED pc
       ELSE /\ pc' = "drain"
            /\ UNCHANGED << audio_streamer, generation_thread >>
  /\ UNCHANGED << probe, orphan, serverVars, nreq, tempFiles, request, localVars, pushed,
                  response, light >>

\* time.sleep(1), then audio_streamer.get_stream(0)
GraceSleep ==
  /\ pc = "sleep"
  /\ pc' = "drain"
  /\ UNCHANGED << probe, orphan, serverVars, nreq, tempFiles, request, localVars, workerVars,
                  response, light >>

\* One iteration of "for audio_chunk in audio_stream"
PullChunk ==
  /\ pc = "drain"
  /\ pull_result(audio_streamer) = "chunk"
  /\ audio_streamer' = [audio_streamer EXCEPT !.queue = Tail(@)]
  /\ LET audio_chunk == Head(audio_streamer.queue)
     IN IF convert_raises(audio_chunk)
          THEN Fail(Error(500, "Generation failed")) /\ UNCHANGED all_audio_chunks
          ELSE /\ all_audio_chunks' = collect_chunk(all_audio_chunks, audio_chunk)
               /\ UNCHANGED << pc, response >>
  /\ UNCHANGED << probe, orphan, serverVars, nreq, tempFiles, request, selected_speakers,
                  voice_samples, formatted_script_lines, audio_data,
                  generation_thread, pushed, light >>

\* Variant of EndOfStream that also leaves the loop when the queue is merely
\* empty (a poll that treats "nothing yet" as the end).
EndOfStreamOnEmpty ==
  /\ pc = "drain"
  /\ pull_result(audio_streamer) \in {"end", "block"}
  /\ pc' = "join"
  /\ UNCHANGED << probe, orphan, serverVars, nreq, tempFiles, request, localVars, workerVars,
                  response, light >>

\* Variant of EndOfStream that notices the stop signal only once a chunk has
\* been collected (a close that arrives before the first pull is missed).
EndOfStreamAfterChunk ==
  /\ pc = "drain"
  /\ pull_result(audio_streamer) = "end"
  /\ all_audio_chunks # <<>>
  /\ pc' = "join"
  /\ UNCHANGED << probe, orphan, serverVars, nreq, tempFiles, request, localVars, workerVars,
                  response, light >>

\* The iterator reads the stop signal and the loop ends.
EndOfStream ==
  /\ pc = "drain"
  /\ pull_result(audio_streamer) = "end"
  /\ pc' = "join"
  /\ UNCHANGED << probe, orphan, serverVars, nreq, tempFiles, request, localVars, workerVars,
                  response, light >>

\* generation_thread.join(timeout=10.0) returns when the thread has terminated
\* or when the ten seconds are over; then the chunks are combined.
JoinAndCombine ==
  /\ pc = "join"
  /\ IF chunks_present(all_audio_chunks)
       THEN /\ audio_data' = combine_chunks(all_audio_chunks)
            /\ pc' = "encode"
            /\ UNCHANGED response
       ELSE /\ Fail(Error(500, "No audio chunks were generated"))
            /\ UNCHANGED audio_data
  /\ UNCHANGED << probe, orphan, serverVars, nreq, tempFiles, request, selected_speakers,
                  voice_samples, formatted_script_lines, all_audio_chunks,
                  workerVars, light >>

\* duration = len(audio_data) / sample_rate, kept as the fraction num / den
duration(data, sample_rate) == [num |-> Len(data), den |-> sample_rate]

Success(data) ==
  [status |-> 200, detail |-> "success",
   audio |-> convert_to_16_bit_wav(data, 1),
   samples |-> Len(data), sample_rate |-> SAMPLE_RATE,
   duration |-> duration(data, SAMPLE_RATE)]

\* What the environment holds for save_audio_file: saving switched off
\* (SAVE_GENERATED_AUDIO), a write that succeeds, a write that raises.
SaveModes == {"disabled", "saved", "error"}

\* Return value of save_audio_file: the path written, or None.
save_audio_file(data, save) ==
  IF save = "saved" /\ ~convert_raises(data) THEN "outputs/file.wav" ELSE "None"

\* Variant of save_propagates in which a failed write reaches the handler.
save_propagates_error(save) == save = "error"

\* Whether an exception inside save_audio_file reaches its caller: the whole
\* body is inside "try ... except Exception: return None".
save_propagates(save) == FALSE

\* The end of a handler that has assembled audio_data: save_audio_file and the
\* 16-bit conversion for the response; any exception becomes the 500 of the
\* handler's except clause.
respond(data, save) ==
  IF save_propagates(save) \/ convert_raises(data)
    THEN Error(500, "Generation failed")
    ELSE Success(data)

\* generate_podcast: save_audio_file, audio_to_base64 and the GenerationResponse
EncodeGenerate ==
  /\ pc = "encode"
  /\ request.endpoint = "generate"
  /\ \E save \in SaveModes :
       LET resp == respond(audio_data, save)
       IN IF resp.status = 200
            THEN response' = resp /\ pc' = "done"
            ELSE Fail(resp)
  /\ UNCHANGED << probe, orphan, serverVars, nreq, tempFiles, request, localVars, workerVars, light >>

\* generate_podcast_wav: NamedTemporaryFile(delete=False), conversion, sf.write,
\* save_audio_file, FileResponse.  The temporary file is created before the
\* conversion and is never deleted.
EncodeWav ==
  /\ pc = "encode"
  /\ request.endpoint = "wav"
  /\ tempFiles' = tempFiles + 1
  /\ \E save \in SaveModes :
       LET resp == respond(audio_data, save)
       IN IF resp.status = 200
            THEN response' = resp /\ pc' = "done"
            ELSE Fail(resp)
  /\ UNCHANGED << probe, orphan, serverVars, nreq, request, localVars, workerVars, light >>


\* ------------------------------------------------------------ worker thread
\* The thread target is a bare lambda around model.generate: the generation
\* routine puts chunks into the streamer and ends the stream when it completes.
WorkerPush ==
  /\ generation_thread = "running"
  /\ Len(pushed) < MaxChunks
  /\ \E chunk \in ChunkSet :
       /\ audio_streamer' = streamer_put(audio_streamer, chunk)
       /\ pushed' = Append(pushed, chunk)
  /\ UNCHANGED << probe, orphan, serverVars, nreq, tempFiles, request, pc, localVars,
                  generation_thread, response, light >>

\* Normal completion: the routine ends the stream.
WorkerEnd ==
  /\ generation_thread = "running"
  /\ audio_streamer' = streamer_end(audio_streamer)
  /\ generation_thread' = "ended"
  /\ UNCHANGED << probe, orphan, serverVars, nreq, tempFiles, request, pc, localVars, pushed,
                  response, light >>

\* The thread terminates after the routine has returned.
WorkerExit ==
  /\ generation_thread = "ended"
  /\ generation_thread' = "exited"
  /\ UNCHANGED << probe, orphan, serverVars, nreq, tempFiles, request, pc, localVars,
                  audio_streamer, pushed, response, light >>

\* The routine raises: the lambda has no handler, the thread dies and nothing
\* is written to the streamer.
WorkerRaise ==
  /\ generation_thread = "running"
  /\ generation_thread' = "raised"
  /\ UNCHANGED << probe, orphan, serverVars, nreq, tempFiles, request, pc, localVars,
                  audio_streamer, pushed, response, light >>

\* The routine stops making progress without ending the stream.
WorkerStall ==
  /\ generation_thread = "running"
  /\ generation_thread' = "stalled"
  /\ UNCHANGED << probe, orphan, serverVars, nreq, tempFiles, request, pc, localVars,
                  audio_streamer, pushed, response, light >>

\* The thread of an earlier request that is still running puts a further chunk.
OrphanPush ==
  /\ orphan.thread = "running"
  /\ Len(orphan.streamer.queue) < MaxLatePuts
  /\ \E chunk \in OrphanChunks :
       LET target == closure_streamer("orphan", "request")
       IN /\ orphan' = [orphan EXCEPT
                          !.streamer = IF target = "orphan"
                                         THEN streamer_put(@, chunk) ELSE @]
          /\ audio_streamer' = IF target = "request"
                                 THEN streamer_put(audio_streamer, chunk)
                                 ELSE audio_streamer
  /\ UNCHANGED << probe, serverVars, nreq, tempFiles, request, pc, localVars,
                  generation_thread, pushed, response, light >>

\* The thread of an earlier request terminates (the routine returns, raises or
\* is never scheduled again); nothing refers to its streamer any more.
OrphanStop ==
  /\ orphan.thread = "running"
  /\ orphan' = NoOrphan
  /\ UNCHANGED << probe, serverVars, nreq, tempFiles, request, pc, localVars, workerVars,
                  response, light >>

\* --------------------------------------------- requests served by the loop
\* The slot `light` holds the latest /generate/stream exchange.
\* GET /health: answered whenever the event loop runs; changes no state.
HealthCheck ==
  /\ LoopFree
  /\ UNCHANGED vars

\* POST /generate/stream: body validation, readiness check, StreamingResponse.
StreamArrive ==
  /\ LoopFree
  /\ light.pos \in {"none", "done"}
  /\ \E body \in StreamBodies :
       light' = [num_speakers |-> body.num_speakers, speakers |-> body.speakers,
                 frames |-> <<>>,
                 status |-> IF ~body_ok(body) THEN 422
                            ELSE IF ~is_initialized THEN 503 ELSE 200,
                 pos |-> IF body_ok(body) /\ is_initialized THEN "accepted" ELSE "done"]
  /\ UNCHANGED << probe, orphan, serverVars, nreq, tempFiles, request, pc, localVars, workerVars,
                  response >>

\* generate_stream: the start-status frame, then await asyncio.sleep(1)
StreamStart ==
  /\ LoopFree
  /\ light.pos = "accepted"
  /\ light' = [light EXCEPT !.frames = Append(@, "status"), !.pos = "sleeping"]
  /\ UNCHANGED << probe, orphan, serverVars, nreq, tempFiles, request, pc, localVars, workerVars,
                  response >>

\* generate_stream after the sleep: the terminal frame
StreamComplete ==
  /\ LoopFree
  /\ light.pos = "sleeping"
  /\ light' = [light EXCEPT !.frames = Append(@, "complete"), !.pos = "done"]
  /\ UNCHANGED << probe, orphan, serverVars, nreq, tempFiles, request, pc, localVars, workerVars,
                  response >>

HandlerStep ==
  \/ ResolveGenerate
  \/ ResolveWav
  \/ StartGeneration
  \/ GraceSleep
  \/ PullChunk
  \/ EndOfStream
  \/ JoinAndCombine
  \/ EncodeGenerate
  \/ EncodeWav

WorkerStep ==
  \/ WorkerPush
  \/ WorkerEnd
  \/ WorkerExit
  \/ WorkerRaise
  \/ WorkerStall

Next ==
  \/ Initialize
  \/ Arrive
  \/ ResolveGenerate
  \/ ResolveWav
  \/ StartGeneration
  \/ GraceSleep
  \/ PullChunk
  \/ EndOfStream
  \/ JoinAndCombine
  \/ EncodeGenerate
  \/ EncodeWav
  \/ WorkerPush
  \/ WorkerEnd
  \/ WorkerExit
  \/ WorkerRaise
  \/ WorkerStall
  \/ HealthCheck
  \/ StreamArrive
  \/ StreamStart
  \/ StreamComplete
  \/ OrphanPush
  \/ OrphanStop

Spec == Init /\ [][Next]_vars

\* The handler is a running coroutine and the worker a started thread: each is
\* scheduled again as long as it has a step to take.
FairSpec == Spec /\ WF_vars(HandlerStep) /\ WF_vars(WorkerStep)

\* ------------------------------------------- the helper functions on their own
\* Buffers of up to MaxBufferLen samples; a sample is x / den with den 1 (whole
\* values, as in the int16-valued audio_data) or 2 (halves, from -2.0 to 2.0).
RECURSIVE SeqsUpTo(_, _)
SeqsUpTo(S, n) ==
  IF n = 0 THEN { <<>> }
  ELSE LET shorter == SeqsUpTo(S, n - 1)
       IN shorter \cup { Append(q, x) : q \in { r \in shorter : Len(r) = n - 1 }, x \in S }

ProbeDens == {1, 2}

ProbeSamples(den) == (-2 * den)..(2 * den)

LineKinds == {"blank", "labelled", "plain"}

ProbeInputs ==
  { [NoProbe EXCEPT !.fn = "convert", !.den = d, !.data = b] :
      d \in ProbeDens, b \in SeqsUpTo(ProbeSamples(2), MaxBufferLen) }
  \cup
  { [NoProbe EXCEPT !.fn = "format", !.script = sc, !.n = k] :
      sc \in SeqsUpTo(LineKinds, MaxScriptLen), k \in MinNumSpeakers..MaxNumSpeakers }
  \cup
  { [NoProbe EXCEPT !.fn = "encode", !.data = b, !.buffer = b] :
      b \in SeqsUpTo(ProbeSamples(1), MaxBufferLen) \ { <<>> } }
  \cup
  { [NoProbe EXCEPT !.fn = "respond", !.data = b, !.save = m] :
      b \in SeqsUpTo(ProbeSamples(1), MaxBufferLen) \ { <<>> }, m \in SaveModes }

FnInit ==
  /\ ServerInit
  /\ probe \in ProbeInputs

\* convert_to_16_bit_wav(data)
ProbeConvert ==
  /\ probe.fn = "convert"
  /\ probe.step = 0
  /\ probe' = [probe EXCEPT
                 !.step = 1,
                 !.raised = convert_raises(probe.data),
                 !.out = IF convert_raises(probe.data) THEN <<>>
                         ELSE convert_to_16_bit_wav(probe.data, probe.den)]
  /\ UNCHANGED << serverVars, nreq, tempFiles, request, pc, localVars, workerVars,
                  response, light, orphan >>

\* The script formatting loop of the generation handlers
ProbeFormat ==
  /\ probe.fn = "format"
  /\ probe.step = 0
  /\ probe' = [probe EXCEPT !.step = 1, !.out = format_script(probe.script, probe.n)]
  /\ UNCHANGED << serverVars, nreq, tempFiles, request, pc, localVars, workerVars,
                  response, light, orphan >>

\* audio_to_base64(audio_data, sample_rate), called twice on the same array
ProbeEncode ==
  /\ probe.fn = "encode"
  /\ probe.step \in {0, 1}
  /\ probe' = [probe EXCEPT
                 !.step = @ + 1,
                 !.buffer = array_after_encoding(@),
                 !.out = IF probe.step = 0 THEN audio_to_base64(probe.buffer, SAMPLE_RATE)
                         ELSE @,
                 !.out2 = IF probe.step = 1 THEN audio_to_base64(probe.buffer, SAMPLE_RATE)
                          ELSE @]
  /\ UNCHANGED << serverVars, nreq, tempFiles, request, pc, localVars, workerVars,
                  response, light, orphan >>

\* The end of a generation handler on an assembled buffer, for one state of
\* the saving environment
ProbeRespond ==
  /\ probe.fn = "respond"
  /\ probe.step = 0
  /\ probe' = [probe EXCEPT
                 !.step = 1,
                 !.saved_filepath = save_audio_file(probe.data, probe.save),
                 !.resp = respond(probe.data, probe.save)]
  /\ UNCHANGED << serverVars, nreq, tempFiles, request, pc, localVars, workerVars,
                  response, light, orphan >>

FnNext ==
  \/ ProbeConvert
  \/ ProbeFormat
  \/ ProbeEncode
  \/ ProbeRespond

FnSpec == FnInit /\ [][FnNext]_vars

\* ------------------------------------- generation ids and output file names
\* The clock is time.time() in microseconds.  A request reads it on entry of
\* its handler.  The readings of the model stay far below 10^12, so the
\* "% 1000000000000" of generate_podcast_wav leaves them as they are.
generation_id(endpoint, now) ==
  IF endpoint = "generate" THEN [prefix |-> "gen", n |-> now \div MicrosPerMilli]
  ELSE IF endpoint = "wav" THEN [prefix |-> "gen", n |-> now]
  ELSE [prefix |-> "stream", n |-> now \div MicrosPerMilli]

\* save_audio_file: first ten alphanumeric characters of the script (or
\* "audio"), then the wall-clock time to the second.
output_path(first_chars, now) ==
  [first_chars |-> first_chars, timestamp |-> now \div MicrosPerSecond]

\* Time that passes between two reads of the clock by the server: a
\* microsecond, or a millisecond.
Elapsed == {1, MicrosPerMilli}

ClockStarts == {0, MicrosPerMilli - 1}

FirstChars == {"audio", "Speaker1He"}

NoIds == [fn |-> "id", now |-> 0, issued |-> <<>>, saved |-> <<>>, generating |-> "none"]

IdInit ==
  /\ ServerInit
  /\ probe \in { [NoIds EXCEPT !.now = t] : t \in ClockStarts }

IdUnchanged ==
  UNCHANGED << serverVars, nreq, tempFiles, request, pc, localVars, workerVars,
               response, light, orphan >>

\* A generation handler is entered (it holds the event loop until it is left).
GenerationId ==
  /\ probe.generating = "none"
  /\ Len(probe.issued) < MaxIds
  /\ \E endpoint \in Endpoints, d \in Elapsed, chars \in FirstChars :
       probe' = [probe EXCEPT
                   !.now = @ + d,
                   !.issued = Append(@, generation_id(endpoint, probe.now + d)),
                   !.generating = chars]
  /\ IdUnchanged

\* The handler is left before the grace wait (a rejection), or after it with
\* saving disabled or failed: no file is written.
LeaveUnsaved ==
  /\ probe.generating # "none"
  /\ \E d \in Elapsed :
       probe' = [probe EXCEPT !.now = @ + d, !.generating = "none"]
  /\ IdUnchanged

\* The handler has slept its second, drained and combined; save_audio_file
\* writes the output file and the handler is left.
LeaveSaved ==
  /\ probe.generating # "none"
  /\ \E d \in Elapsed :
       probe' = [probe EXCEPT
                   !.now = @ + MicrosPerSecond + d,
                   !.saved = Append(@, output_path(probe.generating,
                                                   probe.now + MicrosPerSecond + d)),
                   !.generating = "none"]
  /\ IdUnchanged

\* generate_podcast_stream is entered; its frames are sent later, so several
\* stream requests are in flight together.
StreamId ==
  /\ probe.generating = "none"
  /\ Len(probe.issued) < MaxIds
  /\ \E d \in Elapsed :
       probe' = [probe EXCEPT
                   !.now = @ + d,
                   !.issued = Append(@, generation_id("stream", probe.now + d))]
  /\ IdUnchanged

IdNext ==
  \/ GenerationId
  \/ LeaveUnsaved
  \/ LeaveSaved
  \/ StreamId

IdSpec == IdInit /\ [][IdNext]_vars


\* =================================================================== claims
Queue == audio_streamer.queue

\* The handler has a streamer and has not raised.
Collecting == pc \in {"sleep", "drain", "join", "encode", "done"}

Converted(chunks) ==
  [i \in 1..Len(chunks) |-> convert_to_16_bit_wav(chunks[i], Int16Max)]

RECURSIVE TotalLen(_)
TotalLen(chunks) ==
  IF chunks = <<>> THEN 0 ELSE Len(Head(chunks)) + TotalLen(Tail(chunks))

\* C1: the chunks the handler has collected are the converted first chunks the
\* worker pushed, in push order; the queue holds the rest in push order; once
\* the stream has ended and the loop is left, all N chunks are collected and the
\* assembled buffer is their concatenation in order c1..cN.
C1_ChunksInOrder ==
  Collecting =>
    /\ Len(all_audio_chunks) + Len(Queue) = Len(pushed)
    /\ \A i \in 1..Len(all_audio_chunks) :
         all_audio_chunks[i] = convert_to_16_bit_wav(pushed[i], Int16Max)
    /\ \A j \in 1..Len(Queue) : Queue[j] = pushed[Len(all_audio_chunks) + j]
    /\ (pc \in {"join", "encode", "done"} => Queue = <<>> /\ audio_streamer.state = "Closed")
    /\ (pc \in {"encode", "done"} => audio_data = Concatenate(Converted(pushed)))

C1_Witness ==
  /\ pc = "done"
  /\ Len(pushed) = 2
  /\ pushed[1] # pushed[2]
  /\ audio_data = Concatenate(Converted(pushed))

\* C2: a request whose worker has stalled without closing the channel is never
\* left waiting: its handler can always take a further step (towards a timeout).
C2_NeverWaitsIndefinitely ==
  (generation_thread = "stalled" /\ pc \notin Exited) => ENABLED HandlerStep

\* C3: a request whose worker raised before pushing any chunk does not hang: its
\* handler can take a further step, and once it has exited the response is the
\* 500 "Generation failed" error with no audio.
C3_WorkerFailureSurfaced ==
  (generation_thread = "raised" /\ pushed = <<>>) =>
    /\ (pc \notin Exited => ENABLED HandlerStep)
    /\ (pc \in Exited => response = Error(500, "Generation failed"))

\* C4: a success response exists only when the worker has signalled normal
\* completion and every chunk it pushed has been consumed; a request whose
\* worker raised or stalled is never delivered.
C4_NoPartialSuccess ==
  /\ (pc = "done" \/ response.status = 200) =>
       /\ generation_thread \in {"ended", "exited"}
       /\ audio_streamer.state = "Closed"
       /\ Queue = <<>>
       /\ Len(all_audio_chunks) = Len(pushed)
       /\ response.samples = TotalLen(pushed)
  /\ (generation_thread \in {"raised", "stalled"} => pc # "done" /\ response.status # 200)

C4_Witness ==
  /\ pc = "done"
  /\ response.status = 200
  /\ Len(pushed) = 2
  /\ response.samples = 3

\* C5: when the channel was closed after zero chunks, the request has failed
\* with 500 "No audio chunks were generated" on /generate and /generate/wav;
\* no success response has zero samples.
C5_EmptyGeneration ==
  /\ (pc \in Exited /\ audio_streamer.state = "Closed" /\ pushed = <<>>) =>
       (pc = "failed" /\ response = Error(500, "No audio chunks were generated"))
  /\ (response.status = 200 => response.samples > 0 /\ response.audio # <<>>)

C5_Witness ==
  /\ request.endpoint = "wav"
  /\ audio_streamer.state = "Closed"
  /\ pushed = <<>>
  /\ response = Error(500, "No audio chunks were generated")

\* C6: once the handler of a request has exited, on whatever path, no temporary
\* file created for a response is left on disk (so the number of leftover files
\* does not grow with the number of completed requests).
C6_ResourcesReleased ==
  pc \in Exited => tempFiles = 0

\* C7: while a request is generating or aggregating (grace wait, pulls, join),
\* the event loop can answer a health check.
C7_LoopNeverBlocked ==
  pc \in {"sleep", "drain", "join"} => ENABLED HealthCheck

Mismatch(n, sp) == sp # <<>> /\ Len(sp) # n

\* C8: a request whose non-empty speakers list differs in length from
\* num_speakers is rejected as a validation error, on every generation endpoint,
\* with no voice sample loaded, no channel created and no worker started.
C8_SpeakerCountMismatchRejected ==
  /\ (request.endpoint # "none" /\ Mismatch(request.num_speakers, request.speakers)) =>
       /\ pc = "failed"
       /\ response = Error(422, "Validation error")
       /\ selected_speakers = <<>>
       /\ voice_samples = <<>>
       /\ audio_streamer = NoStreamer
       /\ generation_thread = "none"
  /\ (light.pos # "none" /\ Mismatch(light.num_speakers, light.speakers)) =>
       /\ light.status = 422
       /\ light.frames = <<>>
       /\ light.pos = "done"

C8_Witness ==
  /\ request.endpoint = "wav"
  /\ request.num_speakers = 2
  /\ Len(request.speakers) = 3
  /\ response.status = 422
  /\ light.status = 422

\* C9: a well-formed request (valid body, non-empty script) answered while the
\* model is not initialized got the 503 error on every generation endpoint and
\* started no worker.
C9_NotReady ==
  ~is_initialized =>
    /\ (pc \in Exited /\ body_ok(request) /\ ~script_is_empty(request.script)) =>
         /\ response.status = 503
         /\ generation_thread = "none"
    /\ (light.pos # "none" /\ body_ok(light)) => light.status = 503

Phase ==
  CASE pc = "none" -> "None"
    [] pc = "validating" -> "Validating"
    [] pc = "resolved" -> "SpeakersResolved"
    [] pc = "sleep" -> "Generating"
    [] pc \in {"drain", "join"} -> "Aggregating"
    [] pc = "encode" -> "Encoding"
    [] pc = "done" -> "Delivered"
    [] pc = "failed" -> "Failed"

PhaseOrder ==
  { <<"Validating", "SpeakersResolved">>, <<"SpeakersResolved", "Generating">>,
    <<"Generating", "Aggregating">>, <<"Aggregating", "Encoding">>,
    <<"Encoding", "Delivered">> }

PhaseStep ==
  \/ Phase' = Phase
  \/ nreq' # nreq /\ Phase \in {"None", "Delivered", "Failed"}
       /\ Phase' \in {"Validating", "Failed"}
  \/ nreq' = nreq /\ <<Phase, Phase'>> \in PhaseOrder
  \/ nreq' = nreq /\ Phase \notin {"None", "Delivered", "Failed"} /\ Phase' = "Failed"

PhaseShape ==
  /\ (generation_thread # "none" =>
        /\ Phase \notin {"None", "Validating", "SpeakersResolved"}
        /\ resolve_error(selected_speakers) = NoResponse
        /\ voice_samples = selected_speakers
        /\ ~script_is_empty(request.script))
  /\ (Phase \in {"Encoding", "Delivered"} =>
        audio_streamer.state = "Closed" /\ Queue = <<>>)
  /\ (Phase = "Delivered" <=> response.status = 200)
  /\ (Phase = "Failed" <=> response.status \notin {0, 200})

\* C10: a request moves through Validating, SpeakersResolved, Generating,
\* Aggregating, Encoding, Delivered in that order or from a non-terminal phase to
\* Failed; Delivered and Failed are terminal and exclusive; a worker exists only
\* after validation and speaker resolution succeeded; encoding starts only after
\* the stream has ended and been drained.
C10_PhaseOrder == []PhaseShape /\ [][PhaseStep]_vars

C10_Witness ==
  /\ pc = "done"
  /\ request.endpoint = "generate"
  /\ response.status = 200


\* C11: an accepted /generate/stream request emits its start-status frame and
\* then exactly one terminal frame: once the start frame is out and the terminal
\* frame is still to come, either the event loop is free to resume the frame
\* generator, or the generation that occupies the loop can still advance (its
\* handler or its live worker).
C11_TerminalFrameEmitted ==
  (light.pos = "sleeping" /\ generation_thread # "stalled") =>
    LoopFree \/ ENABLED HandlerStep \/ ENABLED WorkerStep

\* C12: requests are isolated.  Every worker is paired with the channel of its
\* own request; the channel of the current request holds a suffix of what its
\* own worker pushed and the handler has collected converted chunks of a prefix
\* of it, so no chunk put by the thread of an earlier request is queued for,
\* consumed by or assembled into the current request; the late puts of such a
\* thread stay in its own channel.
C12_RequestsIsolated ==
  /\ (generation_thread = "none") <=> (audio_streamer = NoStreamer)
  /\ \E k \in 0..Len(pushed) :
       /\ Queue = SubSeq(pushed, k + 1, Len(pushed))
       /\ Len(all_audio_chunks) <= k
  /\ \A i \in 1..Len(all_audio_chunks) :
       all_audio_chunks[i] = convert_to_16_bit_wav(pushed[i], Int16Max)
  /\ (response.status = 200 => response.samples = TotalLen(pushed))
  /\ (orphan.thread = "running" =>
        /\ orphan.streamer.state = "Open"
        /\ \A j \in 1..Len(orphan.streamer.queue) :
             orphan.streamer.queue[j] \in OrphanChunks)

\* A later request is delivered while the thread of an earlier request, still
\* running, has put a chunk of its own.
C12_Witness ==
  /\ orphan.thread = "running"
  /\ orphan.streamer.queue # <<>>
  /\ pc = "done"
  /\ response.status = 200
  /\ pushed # <<>>

\* out is the value num / dd cut to an integer toward zero.
CutTowardZero(out, num, dd) ==
  /\ Abs(out) * dd <= Abs(num)
  /\ Abs(num) < (Abs(out) + 1) * dd
  /\ (num >= 0 => out >= 0)
  /\ (num <= 0 => out <= 0)

PeakOf(data) == SeqMax([i \in 1..Len(data) |-> Abs(data[i])])

\* C13: clipping rule of the 16-bit conversion.  For a buffer whose peak is
\* above 1.0 every output sample is sample / peak * 32767 cut to an integer (so
\* the peak sample becomes +-32767, and with peak 2.0 twice the output is the
\* unscaled value up to one quantisation step); for a buffer whose peak is at
\* most 1.0, exactly 1.0 included, every output sample is sample * 32767 cut to
\* an integer, with no rescaling.
C13_ClippingRule ==
  (probe.fn = "convert" /\ probe.step = 1 /\ ~probe.raised) =>
    LET data == probe.data
        den == probe.den
        out == probe.out
        peak == PeakOf(data)
    IN /\ Len(out) = Len(data)
       /\ peak > den =>
            /\ \A i \in 1..Len(data) : CutTowardZero(out[i], data[i] * Int16Max, peak)
            /\ \E i \in 1..Len(data) : Abs(out[i]) = Int16Max
       /\ peak = 2 * den =>
            \A i \in 1..Len(data) :
              Abs(2 * out[i] - Trunc(data[i] * Int16Max, den)) <= 1
       /\ peak <= den =>
            \A i \in 1..Len(data) : CutTowardZero(out[i], data[i] * Int16Max, den)
       /\ peak = den => \E i \in 1..Len(data) : Abs(out[i]) = Int16Max

\* The buffer (2.0, -0.5) has been converted: the peak becomes 32767 and -0.5
\* becomes -8191, half of the unscaled -16383.
C13_Witness ==
  /\ probe.fn = "convert"
  /\ probe.step = 1
  /\ probe.den = 2
  /\ probe.data = <<4, -1>>
  /\ probe.out = <<32767, -8191>>

\* C14: on a successful request the sample count behind the response is the sum
\* of the lengths of all chunks the worker pushed, the reported duration is
\* that count over the configured sample rate, the reported rate is the
\* configured one, and the duration is strictly positive.
C14_DurationFromSamples ==
  response.status = 200 =>
    /\ response.duration.num = TotalLen(pushed)
    /\ response.duration.den = SAMPLE_RATE
    /\ response.sample_rate = SAMPLE_RATE
    /\ response.duration.num > 0
    /\ response.duration.den > 0

\* Two chunks of one and two samples were pushed and delivered: three samples.
C14_Witness ==
  /\ response.status = 200
  /\ Len(pushed) = 2
  /\ Len(pushed[1]) # Len(pushed[2])
  /\ response.duration = [num |-> 3, den |-> SAMPLE_RATE]

\* C15: script formatting.  Blank lines are dropped, the remaining lines keep
\* their order, a line that already has the speaker format is kept verbatim,
\* and every other line is labelled Speaker k with k = (turns already emitted
\* mod num_speakers) + 1, which lies in 1..num_speakers; two unlabelled lines
\* with num_speakers = 2 become Speaker 1, then Speaker 2.
C15_ScriptFormatting ==
  (probe.fn = "format" /\ probe.step = 1) =>
    LET script == probe.script
        n == probe.n
        out == probe.out
        NonBlank == { i \in 1..Len(script) : script[i] # "blank" }
    IN /\ Len(out) = Cardinality(NonBlank)
       /\ { out[j].line : j \in 1..Len(out) } = NonBlank
       /\ \A j \in 1..Len(out), k \in 1..Len(out) : j < k => out[j].line < out[k].line
       /\ \A j \in 1..Len(out) :
            /\ script[out[j].line] = "labelled" => out[j].label = 0
            /\ script[out[j].line] = "plain" =>
                 /\ out[j].label = ((j - 1) % n) + 1
                 /\ out[j].label \in 1..n
       /\ (script = <<"plain", "plain">> /\ n = 2) =>
            out = << [label |-> 1, line |-> 1], [label |-> 2, line |-> 2] >>

\* A labelled line, a blank line and an unlabelled line for two speakers: the
\* unlabelled line is the second turn and becomes Speaker 2.
C15_Witness ==
  /\ probe.fn = "format"
  /\ probe.step = 1
  /\ probe.script = <<"labelled", "blank", "plain">>
  /\ probe.n = 2
  /\ probe.out = << [label |-> 0, line |-> 1], [label |-> 2, line |-> 3] >>

Rejection(req) ==
  IF \A i \in 1..Len(req.script) : req.script[i] = "blank"
    THEN Error(400, "Script cannot be empty")
  ELSE IF \E s \in Range(req.speakers) : s \notin Range(available_voices)
    THEN Error(400, "Speaker not found")
  ELSE IF \E s \in Range(req.speakers) : s \in UnreadableVoices
    THEN Error(500, "Failed to load audio")
  ELSE NoResponse

NothingStarted ==
  /\ audio_streamer = NoStreamer
  /\ generation_thread = "none"
  /\ pushed = <<>>

RejectedResponse ==
  response.detail \in {"Script cannot be empty", "Speaker not found", "Failed to load audio"}

RejectedAtOnce ==
  (/\ pc = "validating"
   /\ pc' # "validating"
   /\ request.endpoint = "generate" => is_initialized
   /\ Rejection(request) # NoResponse)
  => /\ pc' = "failed"
     /\ response' = Rejection(request)
     /\ NothingStarted'

\* C17: a request with an empty or whitespace-only script, a named speaker
\* that is not in the registry or a voice sample that cannot be loaded is
\* rejected by the first step of its handler with the error of that category,
\* and a request rejected so has no channel, no worker and no pushed chunk.
C17_RejectedBeforeGeneration ==
  /\ [](RejectedResponse => (pc = "failed" /\ NothingStarted))
  /\ [][RejectedAtOnce]_vars

\* A request naming a registered voice whose sample cannot be read was rejected.
C17_Witness ==
  /\ pc = "failed"
  /\ response = Error(500, "Failed to load audio")
  /\ "zz-Broken" \in Range(request.speakers)
  /\ NothingStarted

\* C18: rescaling is applied once to the whole assembled buffer.  In a delivered
\* response every sample of the request is scaled by one common factor: when
\* the peak over all pushed samples is at most 1.0 the delivered sample is the
\* generated sample times 32767, otherwise it is the generated sample divided
\* by that overall peak, times 32767.  (A pushed value v stands for v / 32767.)
C18_RescaledOnce ==
  response.status = 200 =>
    LET generated == Concatenate(pushed)
        peak == PeakOf(generated)
    IN /\ Len(response.audio) = Len(generated)
       /\ \A i \in 1..Len(generated) :
            response.audio[i] = IF peak <= Int16Max
                                  THEN generated[i]
                                  ELSE Trunc(generated[i] * Int16Max, peak)

ClosedWhileHandling == audio_streamer.state = "Closed" /\ pc \notin Exited

\* The response a request is due whose worker completed normally.
CompletedOutcome ==
  IF pushed = <<>> THEN response = Error(500, "No audio chunks were generated")
  ELSE IF \A i \in 1..Len(pushed) : pushed[i] # <<>>
    THEN response.status = 200 /\ response.samples = TotalLen(pushed)
  ELSE response = Error(500, "Generation failed")

Started == {"sleep", "drain", "join", "encode", "done", "failed"}

\* Within one request: a thread starts running only in the step that leaves
\* "resolved", together with the creation of the streamer, and none existed
\* before; once the handler is past that step it never returns to it, the
\* thread and the streamer it was given are never replaced, and the streamer
\* only goes from open to closed.
StartedOnce ==
  /\ (generation_thread # "running" /\ generation_thread' = "running") =>
       /\ pc = "resolved"
       /\ generation_thread = "none"
       /\ audio_streamer = NoStreamer
       /\ audio_streamer' = [state |-> "Open", queue |-> <<>>]
  /\ (audio_streamer.state # "Open" /\ audio_streamer'.state = "Open") =>
       /\ pc = "resolved"
       /\ audio_streamer = NoStreamer
       /\ generation_thread = "none"
  /\ (pc \in Started /\ nreq' = nreq) =>
       /\ pc' \in Started
       /\ (generation_thread = "none" <=> generation_thread' = "none")
       /\ (audio_streamer.state = "Closed" => audio_streamer'.state = "Closed")
       /\ Len(pushed') >= Len(pushed)

\* C20: generation is never retried.  For each request at most one streamer is
\* created and at most one thread is started, both in the single step that
\* begins generation, whatever the worker does afterwards (completes, raises,
\* stalls).
C20_NeverRetried == [][StartedOnce]_vars

\* The worker raised after pushing a chunk and the handler is still draining.
C20_Witness ==
  /\ generation_thread = "raised"
  /\ pushed # <<>>
  /\ pc = "drain"

\* What the other generation endpoint resolves for the same body against the
\* same registry.
OtherSelection ==
  IF request.endpoint = "generate" THEN select_speakers_wav(request)
  ELSE select_speakers_generate(request)

\* C21: speaker selection of /generate/wav is that of /generate.  When the
\* handler of one endpoint has resolved its speakers on an initialised server,
\* the other endpoint resolves the same ordered list for that body and
\* registry; when it has rejected the request for want of voices, the other
\* endpoint does not resolve a list either.
C21_SameSelection ==
  /\ (pc = "resolved" /\ is_initialized) =>
       /\ OtherSelection = selected_speakers
       /\ resolve_error(OtherSelection) = NoResponse
  /\ (/\ pc = "failed"
      /\ is_initialized
      /\ response = Error(400, "Requested more speakers than available"))
     => select_speakers_generate(request) = TooFewVoices

\* C22: whenever a worker has been started, the resolved speakers and the voice
\* samples handed to the generation routine are num_speakers many and every
\* resolved speaker is in the voice registry (so with no explicit speakers and
\* fewer registered voices than num_speakers no worker is started).
C22_WorkerHasAllSpeakers ==
  generation_thread # "none" =>
    /\ Len(selected_speakers) = request.num_speakers
    /\ Len(voice_samples) = request.num_speakers
    /\ \A i \in 1..Len(selected_speakers) :
         selected_speakers[i] \in Range(available_voices)

\* C23: request identity is unique.  Any two requests, also two that are in
\* flight together or entered within the same millisecond, have different
\* generation ids, and any two output files written have different paths.
C23_UniqueIds ==
  probe.fn = "id" =>
    /\ \A i \in 1..Len(probe.issued), j \in 1..Len(probe.issued) :
         i # j => probe.issued[i] # probe.issued[j]
    /\ \A i \in 1..Len(probe.saved), j \in 1..Len(probe.saved) :
         i # j => probe.saved[i] # probe.saved[j]

\* The success response of an assembled buffer, as it is without any saving.
ResponseWithoutSaving(data) ==
  [status |-> 200, detail |-> "success",
   audio |-> convert_to_16_bit_wav(data, 1),
   samples |-> Len(data), sample_rate |-> SAMPLE_RATE,
   duration |-> [num |-> Len(data), den |-> SAMPLE_RATE]]

\* C24: output persistence never changes the outcome.  For an assembled buffer
\* the handler returns the same success response, with the same audio and
\* duration, whether saving is disabled, succeeds or fails; a failed or
\* disabled save yields no file path and is not propagated.
C24_PersistenceNeutral ==
  (probe.fn = "respond" /\ probe.step = 1) =>
    /\ probe.resp = ResponseWithoutSaving(probe.data)
    /\ (probe.save # "saved" => probe.saved_filepath = "None")
    /\ (probe.save = "saved" => probe.saved_filepath # "None")

\* The write of the output file failed and the request was still delivered.
C24_Witness ==
  /\ probe.fn = "respond"
  /\ probe.step = 1
  /\ probe.save = "error"
  /\ probe.saved_filepath = "None"
  /\ probe.resp.status = 200
  /\ probe.resp.audio # <<>>

====
